---- MODULE Spec2Model ----
(***************************************************************************)
(* PROXY protocol header codec (package proxyproto, header.go).            *)
(*                                                                         *)
(* The module models the Header value, Header.EqualTo, Header.WriteTo and  *)
(* Read from header.go, the bufio.Reader that Read peeks into, and the     *)
(* version 1 / version 2 encoders and decoders that header.go calls.       *)
(* Bytes are naturals in 0..255, byte strings are sequences of bytes.      *)
(***************************************************************************)
EXTENDS Naturals, Sequences, FiniteSets, TLC

(***************************************************************************)
(* Generic helpers on byte strings.                                        *)
(***************************************************************************)
Min(a, b) == IF a < b THEN a ELSE b

Take(s, n) == SubSeq(s, 1, Min(n, Len(s)))

Drop(s, n) == SubSeq(s, Min(n, Len(s)) + 1, Len(s))

Zeros(n) == [i \in 1..n |-> 0]

\* Position of the first element of s equal to c, 0 when there is none.
IndexOf(s, c) ==
    IF \E i \in 1..Len(s) : s[i] = c
    THEN CHOOSE i \in 1..Len(s) : s[i] = c /\ \A j \in 1..(i - 1) : s[j] # c
    ELSE 0

\* The pieces of s between occurrences of the separator c.
RECURSIVE Split(_, _)
Split(s, c) ==
    LET i == IndexOf(s, c)
    IN  IF i = 0 THEN <<s>> ELSE <<SubSeq(s, 1, i - 1)>> \o Split(Drop(s, i), c)

\* Decimal rendering of a natural (strconv.Itoa).
RECURSIVE Itoa(_)
Itoa(n) == IF n < 10 THEN <<48 + n>> ELSE Itoa(n \div 10) \o <<48 + (n % 10)>>

IsDigits(s) == Len(s) > 0 /\ \A i \in 1..Len(s) : s[i] \in 48..57

\* Value of a string of decimal digits.
RECURSIVE Atoi(_)
Atoi(s) ==
    IF Len(s) = 0 THEN 0 ELSE Atoi(SubSeq(s, 1, Len(s) - 1)) * 10 + (s[Len(s)] - 48)

HexDigit(d) == IF d < 10 THEN 48 + d ELSE 87 + d

\* Lower-case hexadecimal rendering without leading zeros.
RECURSIVE Hex(_)
Hex(n) == IF n < 16 THEN <<HexDigit(n)>> ELSE Hex(n \div 16) \o <<HexDigit(n % 16)>>

(***************************************************************************)
(* Package-level values of header.go.                                      *)
(***************************************************************************)
SIGV1 == <<80, 82, 79, 88, 89>>

SIGV2 == <<13, 10, 13, 10, 0, 13, 10, 81, 85, 73, 84, 10>>

ErrCantReadProtocolVersionAndCommand == "Can't read proxy protocol version and command"

ErrCantReadAddressFamilyAndProtocol == "Can't read address family or protocol"

ErrCantReadLength == "Can't read length"

ErrNoProxyProtocol == "Proxy protocol signature not present"

ErrUnknownProxyProtocolVersion == "Unknown proxy protocol version"

ErrUnsupportedProtocolVersionAndCommand == "Unsupported proxy protocol version and command"

ErrUnsupportedAddressFamilyAndProtocol == "Unsupported address family and protocol"

ErrInvalidLength == "Invalid length"

ErrInvalidAddress == "Invalid address"

ErrInetFamilyDoesntMatchProtocol == "IP address(es) family doesn't match protocol"

ErrInvalidPortNumber == "Invalid port number"

NoErr == "nil"

EOF == "EOF"

ErrBufferFull == "bufio: buffer full"

(***************************************************************************)
(* Commands and transport protocols (the enumerations of the data model;   *)
(* values are the wire bytes of the version 2 format).                     *)
(***************************************************************************)
CmdLocal == 32

CmdProxy == 33

UNSPEC == 0

TCPv4 == 17

UDPv4 == 18

TCPv6 == 33

UDPv6 == 34

UnixStream == 49

UnixDatagram == 50

SupportedTransport == {UNSPEC, TCPv4, UDPv4, TCPv6, UDPv6, UnixStream, UnixDatagram}

IsLocal(cmd) == cmd = CmdLocal

IsIPv4(tp) == tp \in {TCPv4, UDPv4}

IsIPv6(tp) == tp \in {TCPv6, UDPv6}

IsUnix(tp) == tp \in {UnixStream, UnixDatagram}

(***************************************************************************)
(* Addresses.  An IP address is a net.IP, a byte slice of length 0 (nil),  *)
(* 4 or 16; a Unix-domain address is a socket path.  Both are tagged.      *)
(***************************************************************************)
IP(b) == [kind |-> "ip", b |-> b]

UnixPath(p) == [kind |-> "unix", b |-> p]

NilIP == IP(<<>>)

v4InV6Prefix == <<0, 0, 0, 0, 0, 0, 0, 0, 0, 0, 255, 255>>

\* net.IP.To4: the 4-byte form of an IPv4 address, <<>> when it is none.
To4(b) ==
    IF Len(b) = 4 THEN b
    ELSE IF Len(b) = 16 /\ SubSeq(b, 1, 12) = v4InV6Prefix THEN SubSeq(b, 13, 16)
    ELSE <<>>

\* The 16-bit group g (0..7) of a 16-byte address.
Group(b, g) == b[2 * g + 1] * 256 + b[2 * g + 2]

\* Number of consecutive zero groups starting at group g.
RECURSIVE ZeroRun(_, _)
ZeroRun(b, g) == IF g < 8 /\ Group(b, g) = 0 THEN 1 + ZeroRun(b, g + 1) ELSE 0

\* Text of groups g..7, with "::" in place of the run [e0, e1); no ":" is
\* written before group 0 nor right after the "::".
RECURSIVE GroupsText(_, _, _, _)
GroupsText(b, g, e0, e1) ==
    IF g >= 8 THEN <<>>
    ELSE IF g = e0 THEN <<58, 58>> \o GroupsText(b, e1, 8, e1)
    ELSE (IF g > 0 /\ g # e1 THEN <<58>> ELSE <<>>)
         \o Hex(Group(b, g)) \o GroupsText(b, g + 1, e0, e1)

\* Text of a 16-byte address that is not IPv4: the first longest run of two
\* or more zero groups is written "::".
IP6String(b) ==
    LET longest == CHOOSE n \in 0..8 :
                      /\ \E g \in 0..7 : ZeroRun(b, g) = n
                      /\ \A g \in 0..7 : ZeroRun(b, g) <= n
        e0 == IF longest < 2 THEN 8
              ELSE CHOOSE g \in 0..7 :
                      /\ ZeroRun(b, g) = longest
                      /\ \A k \in 0..7 : ZeroRun(b, k) = longest => g <= k
    IN  GroupsText(b, 0, e0, e0 + longest)

\* net.IP.String.
IPString(b) ==
    IF Len(b) = 0 THEN <<60, 110, 105, 108, 62>>
    ELSE IF Len(To4(b)) = 4
    THEN LET p == To4(b)
         IN  Itoa(p[1]) \o <<46>> \o Itoa(p[2]) \o <<46>> \o Itoa(p[3]) \o <<46>> \o Itoa(p[4])
    ELSE IF Len(b) = 16 THEN IP6String(b)
    ELSE <<63>> \o [i \in 1..(2 * Len(b)) |->
                      IF i % 2 = 1 THEN HexDigit(b[(i + 1) \div 2] \div 16)
                      ELSE HexDigit(b[i \div 2] % 16)]

\* String form of an address as EqualTo and the version 1 encoder use it.
AddrString(a) == IF a.kind = "unix" THEN a.b ELSE IPString(a.b)

(***************************************************************************)
(* Header.                                                                 *)
(***************************************************************************)
\* The nil *Header.
NilHeader == [isNil |-> TRUE]

Header(v, cmd, tp, src, dst, sp, dp) ==
    [Version |-> v, Command |-> cmd, TransportProtocol |-> tp,
     SourceAddress |-> src, DestinationAddress |-> dst,
     SourcePort |-> sp, DestinationPort |-> dp]

\* The value EqualTo returns.
EqualToNoNilCheck(header, q) ==
    IF header = NilHeader THEN FALSE
    ELSE IF IsLocal(header.Command) THEN TRUE
    ELSE IF q = NilHeader THEN FALSE
    ELSE /\ header.TransportProtocol = q.TransportProtocol
         /\ AddrString(header.SourceAddress) = AddrString(q.SourceAddress)
         /\ AddrString(header.DestinationAddress) = AddrString(q.DestinationAddress)
         /\ header.SourcePort = q.SourcePort
         /\ header.DestinationPort = q.DestinationPort

EqualTo(header, q) ==
    IF header = NilHeader \/ q = NilHeader THEN FALSE
    ELSE IF IsLocal(header.Command) THEN TRUE
    ELSE /\ header.TransportProtocol = q.TransportProtocol
         /\ AddrString(header.SourceAddress) = AddrString(q.SourceAddress)
         /\ AddrString(header.DestinationAddress) = AddrString(q.DestinationAddress)
         /\ header.SourcePort = q.SourcePort
         /\ header.DestinationPort = q.DestinationPort

\* A call header.EqualTo(q): the value returned and the two headers as the
\* call leaves them (the method assigns to neither).
CallEqualToNormalising(header, q) ==
    [ret |-> EqualTo(header, q),
     header |-> IF header = NilHeader \/ header.SourceAddress.kind # "ip"
                   \/ Len(To4(header.SourceAddress.b)) # 4
                THEN header
                ELSE [header EXCEPT !.SourceAddress = IP(To4(header.SourceAddress.b))],
     q |-> q]

CallEqualTo(header, q) == [ret |-> EqualTo(header, q), header |-> header, q |-> q]

(***************************************************************************)
(* The output sink (io.Writer): the bytes written so far and the number of *)
(* further bytes it accepts before its writes fail; Unlimited never fails. *)
(***************************************************************************)
Unlimited == 100000

ErrSink == "sink: write failed"

NewSink(room) == [data |-> <<>>, room |-> room]

\* w.Write(p): the sink after the write, the count written and the error.
SinkWrite(w, p) ==
    IF Len(p) <= w.room
    THEN [w |-> [data |-> w.data \o p,
                 room |-> IF w.room = Unlimited THEN Unlimited ELSE w.room - Len(p)],
          n |-> Len(p), err |-> NoErr]
    ELSE [w |-> [data |-> w.data \o Take(p, w.room), room |-> 0],
          n |-> w.room, err |-> ErrSink]

(***************************************************************************)
(* Encoders.                                                               *)
(***************************************************************************)
CRLF == <<13, 10>>

SP == <<32>>

KwTCP4 == <<84, 67, 80, 52>>

KwTCP6 == <<84, 67, 80, 54>>

KwUNKNOWN == <<85, 78, 75, 78, 79, 87, 78>>

\* Wire bytes of a version 1 header.
V1Bytes(header) ==
    IF ~IsLocal(header.Command) /\ header.TransportProtocol \in {TCPv4, TCPv6}
    THEN SIGV1 \o SP
         \o (IF header.TransportProtocol = TCPv4 THEN KwTCP4 ELSE KwTCP6) \o SP
         \o AddrString(header.SourceAddress) \o SP
         \o AddrString(header.DestinationAddress) \o SP
         \o Itoa(header.SourcePort) \o SP
         \o Itoa(header.DestinationPort) \o CRLF
    ELSE SIGV1 \o SP \o KwUNKNOWN \o CRLF

writeVersion1(header, w) ==
    LET res == SinkWrite(w, V1Bytes(header))
    IN  [n |-> res.n, err |-> res.err, w |-> res.w, header |-> header, encoder |-> "v1"]

\* Big-endian 16-bit encoding.
BE16(n) == <<n \div 256, n % 256>>

\* The n-byte form of an IP address, zero-filled when the header carries no
\* address of that size.
IPBytes(a, n) ==
    IF a.kind # "ip" THEN Zeros(n)
    ELSE IF n = 4 THEN (IF Len(To4(a.b)) = 4 THEN To4(a.b) ELSE Zeros(4))
    ELSE IF Len(a.b) = 16 THEN a.b
    ELSE IF Len(a.b) = 4 THEN v4InV6Prefix \o a.b
    ELSE Zeros(16)

UnixPathLen == 108

\* A socket path padded with null bytes to 108 bytes.
PathBytes(a) ==
    IF a.kind # "unix" THEN Zeros(UnixPathLen)
    ELSE Take(a.b, UnixPathLen) \o Zeros(UnixPathLen - Len(Take(a.b, UnixPathLen)))

\* Size of the fixed address payload of a family.
PayloadLen(tp) ==
    IF IsIPv4(tp) THEN 12 ELSE IF IsIPv6(tp) THEN 36 ELSE IF IsUnix(tp) THEN 216 ELSE 0

\* The fixed address payload of a version 2 header.
V2Payload(header) ==
    LET tp == header.TransportProtocol
    IN  IF IsIPv4(tp)
        THEN IPBytes(header.SourceAddress, 4) \o IPBytes(header.DestinationAddress, 4)
             \o BE16(header.SourcePort) \o BE16(header.DestinationPort)
        ELSE IF IsIPv6(tp)
        THEN IPBytes(header.SourceAddress, 16) \o IPBytes(header.DestinationAddress, 16)
             \o BE16(header.SourcePort) \o BE16(header.DestinationPort)
        ELSE IF IsUnix(tp)
        THEN PathBytes(header.SourceAddress) \o PathBytes(header.DestinationAddress)
        ELSE <<>>

\* Wire bytes of a version 2 header: signature, version and command, family
\* and protocol, length of the address block, address block.
V2Bytes(header) ==
    SIGV2 \o <<32 + (header.Command % 16)>> \o <<header.TransportProtocol>>
    \o BE16(Len(V2Payload(header))) \o V2Payload(header)

writeVersion2(header, w) ==
    LET res == SinkWrite(w, V2Bytes(header))
    IN  [n |-> res.n, err |-> res.err, w |-> res.w, header |-> header, encoder |-> "v2"]

ErrNilDeref == "panic: nil pointer dereference"

\* A call header.WriteTo(w): the count and error returned, the sink and the
\* header as the call leaves them, and the encoder the call went to.
WriteToDefaultV1(header, w) ==
    IF header = NilHeader
    THEN [n |-> 0, err |-> ErrNilDeref, w |-> w, header |-> header, encoder |-> "none"]
    ELSE IF header.Version = 2 THEN writeVersion2(header, w)
    ELSE writeVersion1(header, w)

WriteToSwapped(header, w) ==
    IF header = NilHeader
    THEN [n |-> 0, err |-> ErrNilDeref, w |-> w, header |-> header, encoder |-> "none"]
    ELSE IF header.Version = 1 THEN writeVersion2(header, w)
    ELSE IF header.Version = 2 THEN writeVersion1(header, w)
    ELSE [n |-> 0, err |-> ErrUnknownProxyProtocolVersion, w |-> w,
          header |-> header, encoder |-> "none"]

WriteTo(header, w) ==
    IF header = NilHeader
    THEN [n |-> 0, err |-> ErrNilDeref, w |-> w, header |-> header, encoder |-> "none"]
    ELSE IF header.Version = 1 THEN writeVersion1(header, w)
    ELSE IF header.Version = 2 THEN writeVersion2(header, w)
    ELSE [n |-> 0, err |-> ErrUnknownProxyProtocolVersion, w |-> w,
          header |-> header, encoder |-> "none"]

(***************************************************************************)
(* The buffered reader Read is given (bufio.Reader): the buffer buf, the   *)
(* read and write offsets r <= w into it, the pending error err of the     *)
(* last fill, and the underlying stream: rd, the bytes it still holds, and *)
(* eager, whether it reports EOF together with its last bytes or only on   *)
(* the read after them.  Bytes of buf outside [r, w) are whatever earlier  *)
(* reads left there.                                                       *)
(***************************************************************************)
BufSize == 16

NewReader(rd, eager) ==
    [buf |-> Zeros(BufSize), r |-> 0, w |-> 0, err |-> NoErr, rd |-> rd, eager |-> eager]

\* bufio.Reader.Reset: the buffer is kept, with its contents.
Reset(b, rd, eager) ==
    [buf |-> b.buf, r |-> 0, w |-> 0, err |-> NoErr, rd |-> rd, eager |-> eager]

\* The bytes a consumer of the reader will obtain, in order.
Pending(b) == SubSeq(b.buf, b.r + 1, b.w) \o b.rd

\* bufio.Reader.fill: slide the unread bytes to the start of the buffer,
\* then read once from the stream into the free space.
fill(b) ==
    LET live == SubSeq(b.buf, b.r + 1, b.w)
        sbuf == IF b.r > 0 THEN live \o SubSeq(b.buf, Len(live) + 1, Len(b.buf)) ELSE b.buf
        sw   == b.w - b.r
        n    == Min(Len(b.buf) - sw, Len(b.rd))
    IN  IF Len(b.rd) = 0
        THEN [b EXCEPT !.buf = sbuf, !.r = 0, !.w = sw, !.err = EOF]
        ELSE [b EXCEPT !.buf = SubSeq(sbuf, 1, sw) \o Take(b.rd, n)
                                \o SubSeq(sbuf, sw + n + 1, Len(sbuf)),
                       !.r = 0, !.w = sw + n, !.rd = Drop(b.rd, n),
                       !.err = IF b.eager /\ n = Len(b.rd) THEN EOF ELSE NoErr]

\* The fill loop of bufio.Reader.Peek.
RECURSIVE PeekFill(_, _)
PeekFill(b, n) ==
    IF b.w - b.r < n /\ b.w - b.r < Len(b.buf) /\ b.err = NoErr
    THEN PeekFill(fill(b), n)
    ELSE b

\* bufio.Reader.Peek(n): the reader afterwards and the slice returned, given
\* by its offset into buf, its length and its capacity.
Peek(b, n) ==
    LET f     == PeekFill(b, n)
        avail == f.w - f.r
    IN  IF n > Len(f.buf)
        THEN [reader |-> f, off |-> f.r, len |-> avail, cap |-> Len(f.buf) - f.r,
              err |-> ErrBufferFull]
        ELSE IF avail < n
        THEN [reader |-> [f EXCEPT !.err = NoErr], off |-> f.r, len |-> avail,
              cap |-> Len(f.buf) - f.r,
              err |-> IF f.err = NoErr THEN ErrBufferFull ELSE f.err]
        ELSE [reader |-> f, off |-> f.r, len |-> n, cap |-> Len(f.buf) - f.r,
              err |-> NoErr]

\* bufio.Reader.ReadByte.
RECURSIVE ReadByte(_)
ReadByte(b) ==
    IF b.r = b.w
    THEN IF b.err # NoErr
         THEN [reader |-> [b EXCEPT !.err = NoErr], c |-> 0, err |-> b.err]
         ELSE ReadByte(fill(b))
    ELSE [reader |-> [b EXCEPT !.r = b.r + 1], c |-> b.buf[b.r + 1], err |-> NoErr]

\* n calls of ReadByte, stopping at the first error: the reader afterwards,
\* the bytes obtained and the error.  The calls served by the buffer without
\* a fill are taken in one step.
RECURSIVE ReadBytes(_, _)
ReadBytes(b, n) ==
    IF n = 0 THEN [reader |-> b, data |-> <<>>, err |-> NoErr]
    ELSE IF b.r = b.w
    THEN IF b.err # NoErr
         THEN [reader |-> [b EXCEPT !.err = NoErr], data |-> <<>>, err |-> b.err]
         ELSE ReadBytes(fill(b), n)
    ELSE LET k    == Min(n, b.w - b.r)
             rest == ReadBytes([b EXCEPT !.r = b.r + k], n - k)
         IN  [reader |-> rest.reader,
              data |-> SubSeq(b.buf, b.r + 1, b.r + k) \o rest.data,
              err |-> rest.err]

\* ReadByte until a line feed has been read, max bytes have been read or the
\* stream fails.
RECURSIVE ReadLine(_, _)
ReadLine(b, max) ==
    IF max = 0 THEN [reader |-> b, data |-> <<>>, err |-> NoErr]
    ELSE IF b.r = b.w
    THEN IF b.err # NoErr
         THEN [reader |-> [b EXCEPT !.err = NoErr], data |-> <<>>, err |-> b.err]
         ELSE ReadLine(fill(b), max)
    ELSE LET have == SubSeq(b.buf, b.r + 1, b.r + Min(max, b.w - b.r))
             lf   == IndexOf(have, 10)
         IN  IF lf # 0
             THEN [reader |-> [b EXCEPT !.r = b.r + lf], data |-> SubSeq(have, 1, lf),
                   err |-> NoErr]
             ELSE LET rest == ReadLine([b EXCEPT !.r = b.r + Len(have)], max - Len(have))
                  IN  [reader |-> rest.reader, data |-> have \o rest.data,
                       err |-> rest.err]

(***************************************************************************)
(* Decoders.  Each returns the reader as it leaves it, the header (or the  *)
(* nil header) and the error.                                              *)
(***************************************************************************)
Failed(b, err) == [reader |-> b, header |-> NilHeader, err |-> err]

Decoded(b, header) == [reader |-> b, header |-> header, err |-> NoErr]

MaxV1Line == 107

\* IPv6 addresses whose text the model's parser recognises.
KnownIP6 ==
    {<<0, 0, 0, 0, 0, 0, 0, 0, 0, 0, 0, 0, 0, 0, 0, 1>>,
     <<32, 1, 13, 184, 0, 0, 0, 0, 0, 0, 0, 0, 0, 0, 0, 1>>}

IsDecByte(t) == IsDigits(t) /\ Len(t) <= 3 /\ (Len(t) > 1 => t[1] # 48) /\ Atoi(t) <= 255

\* The address a text denotes, NilIP when it denotes none.
ParseIP(text) ==
    LET parts == Split(text, 46)
    IN  IF Len(parts) = 4 /\ \A i \in 1..4 : IsDecByte(parts[i])
        THEN IP([i \in 1..4 |-> Atoi(parts[i])])
        ELSE IF \E a \in KnownIP6 : IPString(a) = text
        THEN IP(CHOOSE a \in KnownIP6 : IPString(a) = text)
        ELSE NilIP

IsPort(t) == IsDigits(t) /\ Len(t) <= 5 /\ Atoi(t) <= 65535

\* The header a version 1 line (without its CRLF) denotes, or the error.
V1Line(b, line) ==
    LET tok == Split(line, 32)
    IN  IF tok[1] # SIGV1 THEN Failed(b, ErrCantReadProtocolVersionAndCommand)
        ELSE IF Len(tok) = 1 THEN Failed(b, ErrCantReadAddressFamilyAndProtocol)
        ELSE IF tok[2] = KwUNKNOWN
        THEN Decoded(b, Header(1, CmdLocal, UNSPEC, NilIP, NilIP, 0, 0))
        ELSE IF tok[2] \notin {KwTCP4, KwTCP6}
        THEN Failed(b, ErrUnsupportedAddressFamilyAndProtocol)
        ELSE IF Len(tok) < 4 THEN Failed(b, ErrInvalidAddress)
        ELSE IF Len(tok) # 6 THEN Failed(b, ErrInvalidPortNumber)
        ELSE LET src == ParseIP(tok[3])
                 dst == ParseIP(tok[4])
                 want == IF tok[2] = KwTCP4 THEN 4 ELSE 16
             IN  IF src = NilIP \/ dst = NilIP THEN Failed(b, ErrInvalidAddress)
                 ELSE IF Len(src.b) # want \/ Len(dst.b) # want
                 THEN Failed(b, ErrInetFamilyDoesntMatchProtocol)
                 ELSE IF ~IsPort(tok[5]) \/ ~IsPort(tok[6])
                 THEN Failed(b, ErrInvalidPortNumber)
                 ELSE Decoded(b, Header(1, CmdProxy,
                                        IF tok[2] = KwTCP4 THEN TCPv4 ELSE TCPv6,
                                        src, dst, Atoi(tok[5]), Atoi(tok[6])))

parseVersion1(b) ==
    LET ln == ReadLine(b, MaxV1Line)
        n  == Len(ln.data)
    IN  IF ln.err # NoErr \/ n < 2 \/ SubSeq(ln.data, n - 1, n) # CRLF
        THEN Failed(ln.reader, ErrCantReadProtocolVersionAndCommand)
        ELSE V1Line(ln.reader, SubSeq(ln.data, 1, n - 2))

\* A null-padded socket path without its padding.
TrimPath(p) == IF IndexOf(p, 0) = 0 THEN p ELSE SubSeq(p, 1, IndexOf(p, 0) - 1)

\* The header a version 2 address payload denotes.
V2Header(cmd, tp, pl) ==
    IF IsIPv4(tp)
    THEN Header(2, cmd, tp, IP(SubSeq(pl, 1, 4)), IP(SubSeq(pl, 5, 8)),
                pl[9] * 256 + pl[10], pl[11] * 256 + pl[12])
    ELSE IF IsIPv6(tp)
    THEN Header(2, cmd, tp, IP(SubSeq(pl, 1, 16)), IP(SubSeq(pl, 17, 32)),
                pl[33] * 256 + pl[34], pl[35] * 256 + pl[36])
    ELSE IF IsUnix(tp)
    THEN Header(2, cmd, tp, UnixPath(TrimPath(SubSeq(pl, 1, 108))),
                UnixPath(TrimPath(SubSeq(pl, 109, 216))), 0, 0)
    ELSE Header(2, cmd, tp, NilIP, NilIP, 0, 0)

\* The address block of a version 2 header whose fixed part has been read.
V2Block(b, cmd, tp, length) ==
    IF IsLocal(cmd)
    THEN LET skip == ReadBytes(b, length)
         IN  IF skip.err # NoErr THEN Failed(skip.reader, ErrInvalidLength)
             ELSE Decoded(skip.reader, Header(2, cmd, tp, NilIP, NilIP, 0, 0))
    ELSE IF length < PayloadLen(tp) THEN Failed(b, ErrInvalidLength)
    ELSE LET pl == ReadBytes(b, PayloadLen(tp))
         IN  IF pl.err # NoErr THEN Failed(pl.reader, ErrInvalidLength)
             ELSE LET tlv == ReadBytes(pl.reader, length - PayloadLen(tp))
                  IN  IF tlv.err # NoErr THEN Failed(tlv.reader, ErrInvalidLength)
                      ELSE Decoded(tlv.reader, V2Header(cmd, tp, pl.data))

parseVersion2(b) ==
    LET sig == ReadBytes(b, 12)
    IN  IF sig.err # NoErr THEN Failed(sig.reader, ErrCantReadProtocolVersionAndCommand)
        ELSE LET b13 == ReadByte(sig.reader)
        IN  IF b13.err # NoErr
            THEN Failed(b13.reader, ErrCantReadProtocolVersionAndCommand)
            ELSE IF b13.c \div 16 # 2 THEN Failed(b13.reader, ErrUnknownProxyProtocolVersion)
            ELSE IF b13.c \notin {CmdLocal, CmdProxy}
            THEN Failed(b13.reader, ErrUnsupportedProtocolVersionAndCommand)
            ELSE LET b14 == ReadByte(b13.reader)
            IN  IF b14.err # NoErr
                THEN Failed(b14.reader, ErrCantReadAddressFamilyAndProtocol)
                ELSE IF b14.c \notin SupportedTransport
                THEN Failed(b14.reader, ErrUnsupportedAddressFamilyAndProtocol)
                ELSE LET len == ReadBytes(b14.reader, 2)
                IN  IF len.err # NoErr THEN Failed(len.reader, ErrCantReadLength)
                    ELSE V2Block(len.reader, b13.c, b14.c,
                                 len.data[1] * 256 + len.data[2])

(***************************************************************************)
(* Read.                                                                   *)
(***************************************************************************)
\* The package-level signature variables.
Package == [SIGV1 |-> SIGV1, SIGV2 |-> SIGV2]

\* s[:n] of a slice of the reader's buffer: the n bytes of buf from the
\* slice's offset on, which may lie beyond the slice's length.
Reslice(pk, n) == SubSeq(pk.reader.buf, pk.off + 1, pk.off + n)

ErrSliceBounds == "panic: slice bounds out of range"

Dispatched(res, decoder, pkg) ==
    [reader |-> res.reader, header |-> res.header, err |-> res.err,
     decoder |-> decoder, pkg |-> pkg]

\* The part of Read after the Peek: compare signature[:5] and signature[:12]
\* with the package's signatures and hand the reader to the decoder.
DispatchKeepingSignature(pk, pkg) ==
    IF pk.cap < 5 THEN Dispatched(Failed(pk.reader, ErrSliceBounds), "none", pkg)
    ELSE IF Reslice(pk, 5) = pkg.SIGV1
    THEN Dispatched(parseVersion1(pk.reader), "v1", pkg)
    ELSE IF pk.cap < 12 THEN Dispatched(Failed(pk.reader, ErrSliceBounds), "none", pkg)
    ELSE IF Reslice(pk, 12) = pkg.SIGV2
    THEN Dispatched(parseVersion2(pk.reader), "v2", pkg)
    ELSE Dispatched(Failed(pk.reader, ErrNoProxyProtocol), "none",
                    [pkg EXCEPT !.SIGV1 = Reslice(pk, 5)])

Dispatch(pk, pkg) ==
    IF pk.cap < 5 THEN Dispatched(Failed(pk.reader, ErrSliceBounds), "none", pkg)
    ELSE IF Reslice(pk, 5) = pkg.SIGV1
    THEN Dispatched(parseVersion1(pk.reader), "v1", pkg)
    ELSE IF pk.cap < 12 THEN Dispatched(Failed(pk.reader, ErrSliceBounds), "none", pkg)
    ELSE IF Reslice(pk, 12) = pkg.SIGV2
    THEN Dispatched(parseVersion2(pk.reader), "v2", pkg)
    ELSE Dispatched(Failed(pk.reader, ErrNoProxyProtocol), "none", pkg)

\* A call Read(reader): the reader and the package variables as the call
\* leaves them, the header and error returned, and the decoder it went to.
Read(b, pkg) == Dispatch(Peek(b, 13), pkg)

(***************************************************************************)
(* Inputs: byte streams and headers the callers use.                       *)
(***************************************************************************)
A4 == <<192, 168, 0, 1>>

B4 == <<192, 168, 0, 11>>

A6 == <<32, 1, 13, 184, 0, 0, 0, 0, 0, 0, 0, 0, 0, 0, 0, 1>>

B6 == <<0, 0, 0, 0, 0, 0, 0, 0, 0, 0, 0, 0, 0, 0, 0, 1>>

PathA == <<47, 116, 109, 112, 47, 97>>

PathB == <<47, 116, 109, 112, 47, 98>>

\* "hi", application data following a header.
Payload == <<104, 105>>

\* "GET / HTTP/1.1" CR LF
HttpRequest == <<71, 69, 84, 32, 47, 32, 72, 84, 84, 80, 47, 49, 46, 49, 13, 10>>

ExampleHeader == Header(2, CmdProxy, TCPv4, IP(A4), IP(B4), 56324, 443)

\* Streams offered to Read: empty and short streams, streams without a
\* signature, prefixes of the signatures, near misses, whole headers of both
\* versions followed by application data.
Streams ==
    {<<>>,
     <<80, 82>>,
     SIGV1,
     Take(SIGV2, 4),
     SIGV2,
     Take(HttpRequest, 3),
     HttpRequest,
     SIGV1 \o SP \o KwUNKNOWN \o CRLF,
     <<80, 82, 79, 88, 90>> \o SP \o KwUNKNOWN \o CRLF,
     V1Bytes([ExampleHeader EXCEPT !.Version = 1]) \o Payload,
     V2Bytes(ExampleHeader) \o Payload,
     Take(SIGV2, 11) \o <<11, 33, 17, 0, 0>>,
     SIGV2 \o <<32, 0, 0, 0>>}

\* Streams a reader is pointed at after its first one: streams that end
\* before a signature's length.
ShortStreams == {<<>>, <<80, 82>>, Take(SIGV2, 4), Take(HttpRequest, 3)}

\* Numbers of bytes the application reads from the stream in one call.
ConsumeSizes == {5, 12}

MaxOpens == 1

MaxWrites == 2

MaxVersion == 3

MaxDiff == 2

SinkRoom == 40

Versions == 0..MaxVersion

Commands == {CmdLocal, CmdProxy}

\* Headers of the given versions: either command, two transport protocols,
\* source addresses of which two have the same string form, two destination
\* addresses, two ports on either side.
HeadersOf(versions) ==
    {Header(v, c, tp, IP(src), IP(dst), sp, dp) :
        v \in versions, c \in Commands, tp \in {TCPv4, TCPv6},
        src \in {A4, v4InV6Prefix \o A4, A6}, dst \in {B4, B6},
        sp \in {0, 56324}, dp \in {443, 65535}}

\* Headers the callers write.
HeaderPool == HeadersOf(Versions)

\* Headers the callers compare.
EqPool == HeadersOf({1, 2})

Fields ==
    {"Version", "Command", "TransportProtocol", "SourceAddress", "DestinationAddress",
     "SourcePort", "DestinationPort"}

\* Number of fields in which two headers differ.
Diff(a, b) == Cardinality({f \in Fields : a[f] # b[f]})

\* Well-formed version 2 headers: the addresses are of the family of the
\* transport protocol, ports are carried by the IP families only.
ValidV2 ==
    {Header(2, c, tp, IP(src), IP(dst), sp, dp) :
        c \in Commands, tp \in {TCPv4, UDPv4},
        src \in {A4, v4InV6Prefix \o A4}, dst \in {B4}, sp \in {0, 56324}, dp \in {443, 65535}}
    \cup
    {Header(2, c, tp, IP(src), IP(dst), sp, dp) :
        c \in Commands, tp \in {TCPv6, UDPv6},
        src \in {A6, B6}, dst \in {B6}, sp \in {0, 56324}, dp \in {443, 65535}}
    \cup
    {Header(2, c, tp, UnixPath(src), UnixPath(dst), 0, 0) :
        c \in Commands, tp \in {UnixStream, UnixDatagram},
        src \in {PathA, <<>>}, dst \in {PathB, [i \in 1..UnixPathLen |-> 97]}}
    \cup
    {Header(2, c, UNSPEC, NilIP, NilIP, 0, 0) : c \in Commands}

(***************************************************************************)
(* State.  pkg holds the package-level variables SIGV1 and SIGV2.  proc    *)
(* gives, for each caller, what it owns: its reader, its two headers hA    *)
(* and hB, its sink, and the outcome of its last call.                     *)
(***************************************************************************)
VARIABLES pkg, proc

vars == <<pkg, proc>>

NoRet ==
    [header |-> NilHeader, err |-> NoErr, decoder |-> "none", n |-> 0,
     encoder |-> "none", eq |-> FALSE]

NoPeek == [off |-> 0, len |-> 0, cap |-> 0, err |-> NoErr]

\* A caller that has made no call yet.
Caller(reader, hA, hB, sink) ==
    [reader |-> reader, pre |-> reader, opens |-> 0,
     hA |-> hA, hB |-> hB, hA0 |-> hA, hB0 |-> hB,
     sink |-> sink, sink0 |-> sink, nwrites |-> 0, sent |-> <<>>, ncalls |-> 0,
     op |-> "none", order |-> "none", pc |-> "idle", pk |-> NoPeek, ret |-> NoRet]

Procs == DOMAIN proc

Update(p, s) == proc' = [proc EXCEPT ![p] = s]

(***************************************************************************)
(* Calls made by a single caller, each a whole call.                       *)
(***************************************************************************)
\* The caller points its reader at a new stream (bufio.Reader.Reset).
Open(p) ==
    /\ proc[p].pc = "idle"
    /\ proc[p].opens < MaxOpens
    /\ \E rd \in ShortStreams, eager \in BOOLEAN :
          Update(p, [proc[p] EXCEPT !.reader = Reset(proc[p].reader, rd, eager),
                                    !.opens = @ + 1, !.op = "Open"])
    /\ UNCHANGED pkg

\* The application reads n bytes from the reader.
Consume(p) ==
    /\ proc[p].pc = "idle"
    /\ \E n \in ConsumeSizes :
          Update(p, [proc[p] EXCEPT !.reader = ReadBytes(proc[p].reader, n).reader,
                                    !.op = "Consume"])
    /\ UNCHANGED pkg

\* Read(reader).
DoRead(p) ==
    LET res == Read(proc[p].reader, pkg)
    IN  /\ proc[p].pc = "idle"
        /\ Update(p, [proc[p] EXCEPT
                !.pre = proc[p].reader, !.reader = res.reader, !.op = "Read",
                !.ret = [NoRet EXCEPT !.header = res.header, !.err = res.err,
                                      !.decoder = res.decoder]])
        /\ pkg' = res.pkg

\* The caller after hA.EqualTo(hB) (order "AB"), hB.EqualTo(hA) ("BA") or
\* hA.EqualTo(hA) ("AA").
AfterEqualTo(s, order) ==
    LET x == IF order = "BA" THEN s.hB ELSE s.hA
        y == IF order = "AB" THEN s.hB ELSE s.hA
        res == CallEqualTo(x, y)
    IN  [s EXCEPT !.hA = IF order = "BA" THEN res.q ELSE res.header,
                  !.hB = IF order = "BA" THEN res.header
                         ELSE IF order = "AB" THEN res.q ELSE s.hB,
                  !.op = "EqualTo", !.order = order,
                  !.ret = [NoRet EXCEPT !.eq = res.ret]]

DoEqualTo(p) ==
    /\ proc[p].pc = "idle"
    /\ \E order \in {"AB", "BA", "AA"} : Update(p, AfterEqualTo(proc[p], order))
    /\ UNCHANGED pkg

\* The caller after hA.WriteTo(sink).
AfterWriteTo(s) ==
    LET res == WriteTo(s.hA, s.sink)
    IN  [s EXCEPT !.hA = res.header, !.sink0 = s.sink, !.sink = res.w,
                  !.nwrites = @ + 1, !.sent = Append(@, res.n), !.op = "WriteTo",
                  !.ret = [NoRet EXCEPT !.n = res.n, !.err = res.err,
                                        !.encoder = res.encoder]]

DoWriteTo(p) ==
    /\ proc[p].pc = "idle"
    /\ proc[p].nwrites < MaxWrites
    /\ Update(p, AfterWriteTo(proc[p]))
    /\ UNCHANGED pkg

(***************************************************************************)
(* Reading streams.                                                        *)
(***************************************************************************)
Init ==
    /\ pkg = Package
    /\ \E rd \in Streams, eager \in BOOLEAN :
          proc = [p \in {1} |-> Caller(NewReader(rd, eager), NilHeader, NilHeader,
                                       NewSink(Unlimited))]

Opens == \E p \in Procs : Open(p)

Consumes == \E p \in Procs : Consume(p)

Reads == \E p \in Procs : DoRead(p)

Next == Opens \/ Consumes \/ Reads

Spec == Init /\ [][Next]_vars

(***************************************************************************)
(* Comparing headers.                                                      *)
(***************************************************************************)
Idle == NewReader(<<>>, FALSE)

InitEq ==
    /\ pkg = Package
    /\ \E a \in EqPool \cup {NilHeader}, b \in EqPool \cup {NilHeader} :
          /\ IF a = NilHeader \/ b = NilHeader THEN TRUE ELSE Diff(a, b) <= MaxDiff
          /\ proc = [p \in {1} |-> Caller(Idle, a, b, NewSink(SinkRoom))]

Compares == \E p \in Procs : DoEqualTo(p)

NextEq == Compares

SpecEq == InitEq /\ [][NextEq]_vars

(***************************************************************************)
(* Comparing and writing headers.  The sink already holds application      *)
(* data and accepts SinkRoom further bytes.                                *)
(***************************************************************************)
InitHeader ==
    /\ pkg = Package
    /\ \E a \in HeaderPool \cup {NilHeader},
          b \in {NilHeader, ExampleHeader, [ExampleHeader EXCEPT !.Command = CmdLocal]} :
          proc = [p \in {1} |-> Caller(Idle, a, b,
                                       [data |-> Payload, room |-> SinkRoom])]

Writes == \E p \in Procs : DoWriteTo(p)

NextHeader == Compares \/ Writes

SpecHeader == InitHeader /\ [][NextHeader]_vars

(***************************************************************************)
(* Writing a version 2 header and reading it back.                         *)
(***************************************************************************)
\* The caller points its reader at what its sink received, followed by
\* application data.
Pipe(p) ==
    /\ proc[p].pc = "idle"
    /\ proc[p].opens < MaxOpens
    /\ proc[p].nwrites > 0
    /\ \E tail \in {<<>>, Payload}, eager \in BOOLEAN :
          Update(p, [proc[p] EXCEPT
              !.reader = Reset(proc[p].reader, proc[p].sink.data \o tail, eager),
              !.opens = @ + 1, !.op = "Pipe"])
    /\ UNCHANGED pkg

InitRoundTrip ==
    /\ pkg = Package
    /\ \E a \in ValidV2 :
          proc = [p \in {1} |-> Caller(Idle, a, NilHeader, NewSink(Unlimited))]

Pipes == \E p \in Procs : Pipe(p)

NextRoundTrip == Writes \/ Pipes \/ Reads

SpecRoundTrip == InitRoundTrip /\ [][NextRoundTrip]_vars

(***************************************************************************)
(* Concurrent callers.  Each caller owns its reader, headers and sink; the *)
(* package variables are shared.  A Read is two steps, the Peek and the    *)
(* comparison with the package's signatures followed by the decoding, so   *)
(* that the calls of different callers interleave.                         *)
(***************************************************************************)
MaxConcCalls == 1

ConcStreams ==
    {Take(HttpRequest, 3), SIGV1 \o SP \o KwUNKNOWN \o CRLF, V2Bytes(ExampleHeader) \o Payload}

ConcHeaders == {ExampleHeader, Header(1, CmdLocal, UNSPEC, NilIP, NilIP, 0, 0)}

CanCall(p) == proc[p].pc = "idle" /\ proc[p].ncalls < MaxConcCalls

\* First step of Read(reader): reader.Peek(13).
ReadPeek(p) ==
    /\ CanCall(p)
    /\ LET pk == Peek(proc[p].reader, 13)
       IN  Update(p, [proc[p] EXCEPT
               !.pre = proc[p].reader, !.reader = pk.reader,
               !.pk = [off |-> pk.off, len |-> pk.len, cap |-> pk.cap, err |-> pk.err],
               !.op = "Read", !.pc = "dispatch", !.ncalls = @ + 1, !.ret = NoRet])
    /\ UNCHANGED pkg

\* Second step of Read(reader): the comparisons and the decoder.
ReadDispatch(p) ==
    /\ proc[p].pc = "dispatch"
    /\ LET s == proc[p]
           res == Dispatch([reader |-> s.reader, off |-> s.pk.off, len |-> s.pk.len,
                            cap |-> s.pk.cap, err |-> s.pk.err], pkg)
       IN  /\ Update(p, [s EXCEPT
                   !.reader = res.reader, !.pc = "idle",
                   !.ret = [NoRet EXCEPT !.header = res.header, !.err = res.err,
                                         !.decoder = res.decoder]])
           /\ pkg' = res.pkg

ConcEqualTo(p) ==
    /\ CanCall(p)
    /\ \E order \in {"AB", "BA", "AA"} :
          Update(p, [AfterEqualTo(proc[p], order) EXCEPT !.ncalls = @ + 1])
    /\ UNCHANGED pkg

ConcWriteTo(p) ==
    /\ CanCall(p)
    /\ Update(p, [AfterWriteTo(proc[p]) EXCEPT !.ncalls = @ + 1])
    /\ UNCHANGED pkg

InitConc ==
    /\ pkg = Package
    /\ \E r1 \in ConcStreams, r2 \in ConcStreams, a1 \in ConcHeaders, a2 \in ConcHeaders :
          proc = [p \in {1, 2} |->
                    Caller(NewReader(IF p = 1 THEN r1 ELSE r2, FALSE),
                           IF p = 1 THEN a1 ELSE a2, ExampleHeader, NewSink(SinkRoom))]

Peeks == \E p \in Procs : ReadPeek(p)

Dispatches == \E p \in Procs : ReadDispatch(p)

ConcCompares == \E p \in Procs : ConcEqualTo(p)

ConcWrites == \E p \in Procs : ConcWriteTo(p)

NextConc == Peeks \/ Dispatches \/ ConcCompares \/ ConcWrites

SpecConc == InitConc /\ [][NextConc]_vars

(***************************************************************************)
(* Properties of Read.                                                     *)
(***************************************************************************)
\* The stream s starts with the version 1 signature.
HasV1(s) == Len(s) >= 5 /\ SubSeq(s, 1, 5) = SIGV1

\* The stream s starts with the version 2 signature.
HasV2(s) == Len(s) >= 12 /\ SubSeq(s, 1, 12) = SIGV2

\* The caller's last call was Read, on the stream `Pending(proc[p].pre)`.
ReadDone(p) == proc[p].op = "Read" /\ proc[p].pc = "idle"

\* C1: a Read of a stream that starts with neither signature returns the
\* nil header and ErrNoProxyProtocol and leaves the bytes a later reader
\* obtains as they were before the call.
C1_NoSignatureLeavesStream ==
    \A p \in Procs :
        (ReadDone(p) /\ ~HasV1(Pending(proc[p].pre)) /\ ~HasV2(Pending(proc[p].pre)))
        => /\ proc[p].ret.header = NilHeader
           /\ proc[p].ret.err = ErrNoProxyProtocol
           /\ Pending(proc[p].reader) = Pending(proc[p].pre)

\* C2: a Read of a stream that offers fewer than 13 bytes does not fail on
\* slice bounds, and when the bytes offered hold no complete signature it
\* reports ErrNoProxyProtocol without going to a decoder.
C2_ShortStreamClassifiedByItsBytes ==
    \A p \in Procs :
        (ReadDone(p) /\ Len(Pending(proc[p].pre)) < 13)
        => /\ proc[p].ret.err # ErrSliceBounds
           /\ (~HasV1(Pending(proc[p].pre)) /\ ~HasV2(Pending(proc[p].pre)))
              => (proc[p].ret.err = ErrNoProxyProtocol /\ proc[p].ret.decoder = "none")

\* C9: Read goes to the version 1 decoder exactly when the stream starts
\* with "PROXY", to the version 2 decoder exactly when it starts with the
\* version 2 signature, and reports ErrNoProxyProtocol otherwise; the two
\* signatures never both match.
C9_DispatchBySignature ==
    \A p \in Procs :
        ReadDone(p)
        => LET s == Pending(proc[p].pre)
           IN  /\ ~(HasV1(s) /\ HasV2(s))
               /\ proc[p].ret.decoder = "v1" <=> HasV1(s)
               /\ proc[p].ret.decoder = "v2" <=> HasV2(s)
               /\ (~HasV1(s) /\ ~HasV2(s)) <=> proc[p].ret.err = ErrNoProxyProtocol

(***************************************************************************)
(* Properties of EqualTo and WriteTo.                                      *)
(***************************************************************************)
\* The caller's last call was EqualTo.
EqualToDone(p) == proc[p].op = "EqualTo" /\ proc[p].pc = "idle"

\* Receiver and argument of the caller's last EqualTo.
Receiver(p) == IF proc[p].order = "BA" THEN proc[p].hB ELSE proc[p].hA

Argument(p) == IF proc[p].order = "AB" THEN proc[p].hB ELSE proc[p].hA

\* The five compared fields of a and b match, addresses by string form.
FieldsMatch(a, b) ==
    /\ a.TransportProtocol = b.TransportProtocol
    /\ AddrString(a.SourceAddress) = AddrString(b.SourceAddress)
    /\ AddrString(a.DestinationAddress) = AddrString(b.DestinationAddress)
    /\ a.SourcePort = b.SourcePort
    /\ a.DestinationPort = b.DestinationPort

\* C3: for non-nil headers, EqualTo returns true exactly when both have
\* command LOCAL or the five fields match.
C3_EqualIffBothLocalOrFieldsMatch ==
    \A p \in Procs :
        (EqualToDone(p) /\ Receiver(p) # NilHeader /\ Argument(p) # NilHeader)
        => (proc[p].ret.eq <=>
              \/ IsLocal(Receiver(p).Command) /\ IsLocal(Argument(p).Command)
              \/ FieldsMatch(Receiver(p), Argument(p)))

\* C4: for non-nil headers, a.EqualTo(a) is true and a.EqualTo(b) is what
\* b.EqualTo(a) is.
C4_ReflexiveAndSymmetric ==
    \A p \in Procs :
        (EqualToDone(p) /\ Receiver(p) # NilHeader /\ Argument(p) # NilHeader)
        => /\ proc[p].order = "AA" => proc[p].ret.eq
           /\ proc[p].ret.eq = EqualTo(Argument(p), Receiver(p))

\* C5: EqualTo returns false when the receiver or the argument is nil.
C5_NilNeverEqual ==
    \A p \in Procs :
        (EqualToDone(p) /\ (Receiver(p) = NilHeader \/ Argument(p) = NilHeader))
        => ~proc[p].ret.eq

\* A LOCAL header has been compared with the nil header.
C5_Witness ==
    \E p \in Procs :
        /\ EqualToDone(p) /\ proc[p].order = "AB"
        /\ proc[p].hA # NilHeader /\ proc[p].hB = NilHeader
        /\ IsLocal(proc[p].hA.Command)
        /\ ~proc[p].ret.eq

\* The caller's last call was WriteTo.
WriteToDone(p) == proc[p].op = "WriteTo" /\ proc[p].pc = "idle"

\* C6: WriteTo of a header whose version is neither 1 nor 2 returns 0 and
\* ErrUnknownProxyProtocolVersion and leaves the sink as it was; version 1
\* goes to the version 1 encoder only, version 2 to the version 2 encoder
\* only.
C6_UnknownVersionWritesNothing ==
    \A p \in Procs :
        (WriteToDone(p) /\ proc[p].hA # NilHeader)
        => /\ proc[p].hA.Version \notin {1, 2}
              => /\ proc[p].ret.n = 0
                 /\ proc[p].ret.err = ErrUnknownProxyProtocolVersion
                 /\ proc[p].ret.encoder = "none"
                 /\ proc[p].sink = proc[p].sink0
           /\ proc[p].hA.Version = 1 => proc[p].ret.encoder = "v1"
           /\ proc[p].hA.Version = 2 => proc[p].ret.encoder = "v2"

\* A header of version 3 has been written to a sink that holds data.
C6_Witness ==
    \E p \in Procs :
        /\ WriteToDone(p) /\ proc[p].hA # NilHeader
        /\ proc[p].hA.Version = 3
        /\ proc[p].ret.err = ErrUnknownProxyProtocolVersion
        /\ proc[p].sink.data = Payload

\* C10: EqualTo and WriteTo leave every field of the caller's headers as it
\* was before the calls.
C10_HeadersNotMutated ==
    \A p \in Procs : proc[p].hA = proc[p].hA0 /\ proc[p].hB = proc[p].hB0

\* A header of unknown version, with an IPv4 source address in 16-byte form,
\* has been written (in vain) and then compared.
C10_Witness ==
    \E p \in Procs :
        /\ EqualToDone(p) /\ proc[p].nwrites > 0
        /\ proc[p].hA # NilHeader /\ proc[p].hB # NilHeader
        /\ proc[p].hA.Version = 0
        /\ Len(proc[p].hA.SourceAddress.b) = 16
        /\ proc[p].hA = proc[p].hA0

(***************************************************************************)
(* Round trip.                                                             *)
(***************************************************************************)
\* The caller's last call was Read, on a reader just pointed at the bytes
\* its sink received.
ReadBack(p) ==
    /\ ReadDone(p)
    /\ proc[p].nwrites > 0
    /\ proc[p].pre.r = 0 /\ proc[p].pre.w = 0
    /\ Len(proc[p].pre.rd) >= Len(proc[p].sink.data)
    /\ SubSeq(proc[p].pre.rd, 1, Len(proc[p].sink.data)) = proc[p].sink.data

C8_CallsDoNotInterfere ==
    /\ pkg = Package
    /\ \A p \in Procs :
          /\ ReadDone(p)
             => LET alone == Read(proc[p].pre, Package)
                IN  /\ proc[p].ret.header = alone.header
                    /\ proc[p].ret.err = alone.err
                    /\ proc[p].ret.decoder = alone.decoder
                    /\ proc[p].reader = alone.reader
          /\ WriteToDone(p)
             => LET alone == WriteTo(proc[p].hA0, proc[p].sink0)
                IN  /\ proc[p].ret.n = alone.n
                    /\ proc[p].ret.err = alone.err
                    /\ proc[p].sink = alone.w
          /\ EqualToDone(p)
             => proc[p].ret.eq =
                  EqualTo(IF proc[p].order = "BA" THEN proc[p].hB0 ELSE proc[p].hA0,
                          IF proc[p].order = "AB" THEN proc[p].hB0 ELSE proc[p].hA0)

\* One caller's Read has decoded a version 1 header while the other caller
\* was between the two steps of its own Read of a version 2 header.
C8_Witness ==
    /\ ReadDone(1) /\ proc[1].ret.decoder = "v1" /\ proc[1].ret.err = NoErr
    /\ proc[2].pc = "dispatch"
    /\ HasV2(Pending(proc[2].reader))

====
